---- MODULE Spec2Model ----
(***************************************************************************)
(* Model of src/fetch_receipts.py: run(target, limit) downloads the        *)
(* receipts enumerated by Receipts.all() through a pool of worker          *)
(* processes (pool.imap over download_receipt) and aggregates the results  *)
(* into the progress dictionary.                                           *)
(*                                                                         *)
(* pool.imap is modelled as the standard library runs it: a task handler   *)
(* thread pulls the iterable (here islice over the generator) and queues   *)
(* one task per item; idle workers take queued tasks first-in first-out;   *)
(* the iterator hands the results to the for loop in task order; an        *)
(* exception of a task, or of the iterable, is raised in the for loop when *)
(* its position is reached.                                                *)
(***************************************************************************)
EXTENDS Integers, Sequences, FiniteSets, TLC

\* ---------------------------------------------------------------- bounds
MaxRows == 2
MaxDatasets == 2
MaxLimit == 2
MaxRuns == 2

\* Rows of the dataset of a run that keeps the whole pool busy.
PoolRows == 5

\* A pool of one more process.
MoreProcesses == 4 + 1

\* ------------------------------------------------------ program constants
Processes == 4

\* ------------------------------------------------------------ input data
ApplicantIds == {"a1"}
Years == {"2016"}
DocumentIds == {"d1", "d2"}
NaN == "NaN"
ContentLengths == {2}
NoContentLength == -1
TargetPath == "target"
Unlimited == -1

Rows == [applicant_id : ApplicantIds, year : Years, document_id : DocumentIds \cup {NaN}]

SeqUpTo(S, n) == UNION {[1..k -> S] : k \in 0..n}

BadCsv == [ok |-> FALSE, rows |-> <<>>]
Csv(rows) == [ok |-> TRUE, rows |-> rows]

RECURSIVE TotalRows(_)
TotalRows(cs) == IF cs = <<>> THEN 0 ELSE Len(Head(cs).rows) + TotalRows(Tail(cs))

DataDirs ==
  {cs \in SeqUpTo({BadCsv} \cup {Csv(s) : s \in SeqUpTo(Rows, MaxRows)}, MaxDatasets) :
      TotalRows(cs) <= MaxRows}

\* One dataset of PoolRows rows that all have a document id, no row having
\* the document id of the row before it.
PoolDirs ==
  {<<Csv(s)>> : s \in {t \in [1..PoolRows -> {r \in Rows : r.document_id # NaN}] :
                          \A i \in 1..(PoolRows - 1) : t[i] # t[i + 1]}}

\* ------------------------------------------------------------- Receipt
\* No document id is taken to be null.
isnullNever(x) == FALSE

isnull(x) == x = NaN

Receipt(row, tgt) ==
  [applicant_id |-> row.applicant_id, year |-> row.year,
   document_id |-> row.document_id, target |-> tgt]

path(receipt) ==
  <<receipt.target, receipt.applicant_id, receipt.year, <<receipt.document_id, ".pdf">> >>

dirname(p) == SubSeq(p, 1, Len(p) - 1)

url(receipt) ==
  <<"http://www.camara.gov.br/cota-parlamentar/documentos/publ/",
    receipt.applicant_id, "/", receipt.year, "/", receipt.document_id, ".pdf">>

Receipts == {Receipt(row, TargetPath) : row \in {r \in Rows : ~isnull(r.document_id)}}

\* ------------------------------------------------------- Receipts.all
\* One next() of the generator Receipts.all(), resumed in dataset ds after
\* row number row: the next row with a document_id, reading the following
\* datasets (pd.read_csv) as the rows of the current one run out.
RECURSIVE GenNext(_, _, _)
GenNext(cs, ds, row) ==
  IF ds >= 1 /\ row < Len(cs[ds].rows)
  THEN IF ~isnull(cs[ds].rows[row + 1].document_id)
       THEN [kind |-> "yield", ds |-> ds, row |-> row + 1]
       ELSE GenNext(cs, ds, row + 1)
  ELSE IF ds >= Len(cs)
       THEN [kind |-> "stop", ds |-> ds, row |-> row]
       ELSE IF ~cs[ds + 1].ok
            THEN [kind |-> "raise", ds |-> ds + 1, row |-> 0]
            ELSE GenNext(cs, ds + 1, 0)

\* ------------------------------------------------------------- run
\* islice one item too long.
IsliceStopOffByOne(lim, count) == lim - count + 1

IsliceStop(lim, count) == lim - count

ExitCondition(lim, count) == lim = 0 \/ count >= lim

\* Only os.path.exists is checked, os.path.isdir is not.
TargetIsValidExistsOnly(t) == t # "missing"

TargetIsValid(t) == t = "dir"

\* The existence check left out.
ShouldDownloadAlways(p, files) == TRUE

\* The existence check inverted.
ShouldDownloadInverted(p, files) == p \in files

\* download_receipt, line 150: not os.path.exists(path).
ShouldDownload(p, files) == p \notin files

HttpErrorResult == [status |-> "error", args |-> NoContentLength]
UrlErrorResult == [status |-> "raise", args |-> NoContentLength]
SkippedResult == [status |-> "skipped", args |-> NoContentLength]
OkResult(len) == [status |-> "ok", args |-> len]
Pending == [status |-> "none", args |-> NoContentLength]

VARIABLES
  target,     \* what the target path is on disk: "missing", "file" or "dir"
  limit,      \* the limit argument (0: none)
  csv,        \* the datasets of DATA_DIR, in os.listdir order
  files,      \* paths of the receipt files on disk
  dirs,       \* directories on disk below the target
  pc,         \* position of run(): start, pool, loop, for, done, raised
  pool,       \* "none", "open" or "terminated"
  gen,        \* the generator receipts: [ds, row, live]
  remaining,  \* items islice may still take in this round (Unlimited: no islice)
  handler,    \* the task handler of this imap call: "idle", "running", "stopped", "failed"
  job,        \* tasks of this imap call: [receipt, taken, response, result];
              \* response is history: what the server answered, "none" before
  delivered,  \* number of results the for loop has consumed in this imap call
  worker,     \* worker[w] = [pc, idx]
  progress,   \* the progress dictionary
  dispatched, \* history: source positions sent to the pool in this run
  outcomes,   \* history: the results bound by the for loop in this run, [receipt, status]
  requested,  \* history: URLs requested from the server in this run
  before,     \* history: the files on disk when this run started
  runNo,      \* number of the current invocation of run()
  completed   \* history: the tasks of this imap call in the order in which
              \* their workers finished them (recorded by WorkerStepInOrder)

vars == <<target, limit, csv, files, dirs, pc, pool, gen, remaining, handler, job,
          delivered, worker, progress, dispatched, outcomes, requested, before, runNo,
          completed>>

Workers == 1..Processes

IdleWorker == [pc |-> "idle", idx |-> 0]

NewProgress == [count |-> 0, size |-> 0, errors |-> <<>>, skipped |-> <<>>]

NewGen == [ds |-> 0, row |-> 0, live |-> TRUE]

\* The state when run(target, limit) is called, the datasets being one of dd.
InitOn(dd) ==
  /\ target \in {"missing", "file", "dir"}
  /\ limit \in 0..MaxLimit
  /\ csv \in dd
  /\ files \in IF target = "dir" THEN SUBSET {path(r) : r \in Receipts} ELSE {{}}
  /\ dirs = {dirname(p) : p \in files}
  /\ pc = "start"
  /\ pool = "none"
  /\ gen = NewGen
  /\ remaining = Unlimited
  /\ handler = "idle"
  /\ job = <<>>
  /\ delivered = 0
  /\ worker = [w \in Workers |-> IdleWorker]
  /\ progress = NewProgress
  /\ dispatched = <<>>
  /\ outcomes = <<>>
  /\ requested = {}
  /\ before = files
  /\ runNo = 1
  /\ completed = <<>>

Init == InitOn(DataDirs)

\* run, lines 106-114: the two checks of the target directory.
ValidateTarget ==
  /\ pc = "start"
  /\ pc' = IF TargetIsValid(target) THEN "pool" ELSE "raised"
  /\ UNCHANGED <<target, limit, csv, files, dirs, pool, gen, remaining, handler, job,
                 delivered, worker, progress, dispatched, outcomes, requested, before, runNo,
                 completed>>

\* run, lines 117-118: the pool and the generator are created; nothing is read yet.
OpenPool ==
  /\ pc = "pool"
  /\ pc' = "loop"
  /\ pool' = "open"
  /\ gen' = NewGen
  /\ UNCHANGED <<target, limit, csv, files, dirs, remaining, handler, job,
                 delivered, worker, progress, dispatched, outcomes, requested, before, runNo,
                 completed>>

\* Receipts(target).all() is called anew in every round of the while loop.
StartRoundRestarts ==
  /\ pc = "loop"
  /\ pc' = "for"
  /\ remaining' = IF limit # 0 THEN IsliceStop(limit, progress.count) ELSE Unlimited
  /\ handler' = "running"
  /\ job' = <<>>
  /\ delivered' = 0
  /\ completed' = <<>>
  /\ gen' = NewGen
  /\ UNCHANGED <<target, limit, csv, files, dirs, pool, worker, progress,
                 dispatched, outcomes, requested, before, runNo>>

\* run, lines 119-123: one round of the while loop starts an imap call.
StartRound ==
  /\ pc = "loop"
  /\ pc' = "for"
  /\ remaining' = IF limit # 0 THEN IsliceStop(limit, progress.count) ELSE Unlimited
  /\ handler' = "running"
  /\ job' = <<>>
  /\ delivered' = 0
  /\ completed' = <<>>
  /\ UNCHANGED <<target, limit, csv, files, dirs, pool, gen, worker, progress,
                 dispatched, outcomes, requested, before, runNo>>

\* The task handler pulls one item of cur_receipts and queues its task.
HandleTask ==
  /\ pool = "open"
  /\ handler = "running"
  /\ IF remaining = 0 \/ ~gen.live
     THEN /\ handler' = "stopped"
          /\ UNCHANGED <<gen, remaining, job, dispatched>>
     ELSE LET n == GenNext(csv, gen.ds, gen.row) IN
          CASE n.kind = "yield" ->
                 /\ gen' = [ds |-> n.ds, row |-> n.row, live |-> TRUE]
                 /\ job' = Append(job, [receipt |-> Receipt(csv[n.ds].rows[n.row], TargetPath),
                                        taken |-> FALSE, response |-> "none",
                                        result |-> Pending])
                 /\ dispatched' = Append(dispatched, <<n.ds, n.row>>)
                 /\ remaining' = IF remaining = Unlimited THEN Unlimited ELSE remaining - 1
                 /\ UNCHANGED handler
            [] n.kind = "stop" ->
                 /\ gen' = [ds |-> n.ds, row |-> n.row, live |-> FALSE]
                 /\ handler' = "stopped"
                 /\ UNCHANGED <<remaining, job, dispatched>>
            [] n.kind = "raise" ->
                 /\ gen' = [ds |-> n.ds, row |-> n.row, live |-> FALSE]
                 /\ handler' = "failed"
                 /\ UNCHANGED <<remaining, job, dispatched>>
  /\ UNCHANGED <<target, limit, csv, files, dirs, pc, pool, delivered, worker, progress,
                 outcomes, requested, before, runNo, completed>>

Queued == {i \in 1..Len(job) : ~job[i].taken}

Min(S) == CHOOSE x \in S : \A y \in S : x <= y

\* The workers of the pool are interchangeable processes: of the idle ones,
\* the one with the smallest number is taken to win the next queued task.
Idle == {w \in Workers : worker[w].pc = "idle"}

\* download_receipt, lines 148-149: a worker takes the oldest queued task,
\* computes the path and creates its directory.
Take(w) ==
  /\ pool = "open"
  /\ Idle # {} /\ w = Min(Idle)
  /\ Queued # {}
  /\ LET i == Min(Queued) IN
       /\ job' = [job EXCEPT ![i].taken = TRUE]
       /\ worker' = [worker EXCEPT ![w] = [pc |-> "exists", idx |-> i]]
       /\ dirs' = dirs \cup {dirname(path(job[i].receipt))}
  /\ UNCHANGED <<target, limit, csv, files, pc, pool, gen, remaining, handler, delivered,
                 progress, dispatched, outcomes, requested, before, runNo>>

\* download_receipt, lines 150, 156-157: the existence check.
Exists(w) ==
  /\ pool = "open"
  /\ worker[w].pc = "exists"
  /\ LET i == worker[w].idx IN
       IF ShouldDownload(path(job[i].receipt), files)
       THEN /\ worker' = [worker EXCEPT ![w].pc = "urlretrieve"]
            /\ UNCHANGED job
       ELSE /\ worker' = [worker EXCEPT ![w] = IdleWorker]
            /\ job' = [job EXCEPT ![i].result = SkippedResult]
  /\ UNCHANGED <<target, limit, csv, files, dirs, pc, pool, gen, remaining, handler,
                 delivered, progress, dispatched, outcomes, requested, before, runNo>>

\* What urlretrieve can do: the response of the server, and whether the file
\* was created before a failure.
Responses ==
  {[kind |-> "ok", file |-> TRUE, len |-> l] : l \in ContentLengths \cup {NoContentLength}}
  \cup {[kind |-> "http_error", file |-> FALSE, len |-> NoContentLength]}
  \cup {[kind |-> "url_error", file |-> f, len |-> NoContentLength] : f \in BOOLEAN}

\* download_receipt's result for a response of the server (lines 151-155).
DownloadResult(resp) ==
  CASE resp.kind = "ok" -> OkResult(resp.len)
    [] resp.kind = "http_error" -> HttpErrorResult
    [] resp.kind = "url_error" -> UrlErrorResult

\* The worker counts its download in the progress dictionary itself.
UrlRetrieveCounts(w) ==
  /\ pool = "open"
  /\ worker[w].pc = "urlretrieve"
  /\ LET i == worker[w].idx IN
     \E resp \in Responses :
       /\ requested' = requested \cup {url(job[i].receipt)}
       /\ files' = IF resp.file THEN files \cup {path(job[i].receipt)} ELSE files
       /\ job' = [job EXCEPT ![i].response = resp.kind, ![i].result = DownloadResult(resp)]
       /\ worker' = [worker EXCEPT ![w] = IdleWorker]
       /\ progress' = IF resp.kind = "ok" THEN [progress EXCEPT !.count = @ + 1] ELSE progress
  /\ UNCHANGED <<target, limit, csv, dirs, pc, pool, gen, remaining, handler, delivered,
                 dispatched, outcomes, before, runNo>>

\* download_receipt, lines 151-155: urlretrieve and the except clause.
UrlRetrieve(w) ==
  /\ pool = "open"
  /\ worker[w].pc = "urlretrieve"
  /\ LET i == worker[w].idx IN
     \E resp \in Responses :
       /\ requested' = requested \cup {url(job[i].receipt)}
       /\ files' = IF resp.file THEN files \cup {path(job[i].receipt)} ELSE files
       /\ job' = [job EXCEPT ![i].response = resp.kind, ![i].result = DownloadResult(resp)]
       /\ worker' = [worker EXCEPT ![w] = IdleWorker]
  /\ UNCHANGED <<target, limit, csv, dirs, pc, pool, gen, remaining, handler, delivered,
                 progress, dispatched, outcomes, before, runNo>>

\* if / if / else instead of if / elif / else: an 'ok' result also reaches
\* the else branch.
AggregatedOkFallsThrough(p, res, receipt) ==
  CASE res.status = "ok" ->
         [p EXCEPT !.count = @ + 1,
                   !.size = IF res.args = NoContentLength THEN @ ELSE @ + res.args,
                   !.errors = Append(@, url(receipt))]
    [] res.status = "skipped" -> [p EXCEPT !.skipped = Append(@, url(receipt))]
    [] res.status = "error" -> [p EXCEPT !.errors = Append(@, url(receipt))]
    [] OTHER -> p

\* A skipped result is not recorded.
AggregatedDropsSkipped(p, res, receipt) ==
  CASE res.status = "ok" ->
         [p EXCEPT !.count = @ + 1,
                   !.size = IF res.args = NoContentLength THEN @ ELSE @ + res.args]
    [] res.status = "error" -> [p EXCEPT !.errors = Append(@, url(receipt))]
    [] OTHER -> p

\* run, lines 124-131: the progress dictionary after one result.  An 'ok'
\* result without a Content-Length header is counted before int() raises.
Aggregated(p, res, receipt) ==
  CASE res.status = "ok" ->
         [p EXCEPT !.count = @ + 1,
                   !.size = IF res.args = NoContentLength THEN @ ELSE @ + res.args]
    [] res.status = "skipped" -> [p EXCEPT !.skipped = Append(@, url(receipt))]
    [] res.status = "error" -> [p EXCEPT !.errors = Append(@, url(receipt))]
    [] OTHER -> p

\* Whether consuming the result raises in run(): the exception of the task
\* re-raised by the iterator (line 123), or int(None) (line 127).
Raises(res) ==
  \/ res.status = "raise"
  \/ res.status = "ok" /\ res.args = NoContentLength

\* imap_unordered instead of imap: the results in the order of completion.
NextResultUnordered(j, n) == IF n < Len(completed) THEN completed[n + 1] ELSE 0

\* run, line 123: the task whose result pool.imap hands to the for loop
\* after n results, 0 while the loop has to wait: imap keeps the order of
\* the tasks.
NextResult(j, n) ==
  IF n < Len(j) /\ j[n + 1].result.status # "none" THEN n + 1 ELSE 0

\* run, lines 123-140: the for loop consumes the next result, in task order.
\* An exception leaves the with block (line 117), which terminates the pool:
\* the workers are killed and the tasks of the imap call are dropped.
Aggregate ==
  /\ pc = "for"
  /\ NextResult(job, delivered) # 0
  /\ LET t == job[NextResult(job, delivered)] IN
       /\ progress' = Aggregated(progress, t.result, t.receipt)
       /\ outcomes' = IF t.result.status = "raise" THEN outcomes
                      ELSE Append(outcomes, [receipt |-> t.receipt, status |-> t.result.status])
       /\ IF Raises(t.result)
          THEN /\ pc' = "raised"
               /\ pool' = "terminated"
               /\ handler' = "idle"
               /\ job' = <<>>
               /\ delivered' = 0
               /\ worker' = [w \in Workers |-> IdleWorker]
               /\ completed' = <<>>
          ELSE /\ delivered' = delivered + 1
               /\ UNCHANGED <<pc, pool, handler, job, worker, completed>>
  /\ UNCHANGED <<target, limit, csv, files, dirs, gen, remaining,
                 dispatched, requested, before, runNo>>

\* The exception of the iterable is lost.
IteratorNeverRaises(h) == FALSE

\* Whether the iterator of imap ends with the exception of the iterable.
IteratorRaises(h) == h = "failed"

\* run, lines 123 and 142-145: the iterator is exhausted (or re-raises the
\* exception of the iterable), then the exit condition.  Leaving the with
\* block terminates the pool.
EndFor ==
  /\ pc = "for"
  /\ handler \in {"stopped", "failed"}
  /\ delivered = Len(job)
  /\ IF IteratorRaises(handler)
     THEN pc' = "raised" /\ pool' = "terminated"
     ELSE IF ExitCondition(limit, progress.count)
          THEN pc' = "done" /\ pool' = "terminated"
          ELSE pc' = "loop" /\ UNCHANGED pool
  /\ handler' = "idle"
  /\ job' = <<>>
  /\ delivered' = 0
  /\ completed' = <<>>
  /\ UNCHANGED <<target, limit, csv, files, dirs, gen, remaining,
                 worker, progress, dispatched, outcomes, requested, before, runNo>>

\* run() is called again with the same arguments, on the disk the previous
\* call left.
RunAgain ==
  /\ pc \in {"done", "raised"}
  /\ runNo < MaxRuns
  /\ runNo' = runNo + 1
  /\ pc' = "start"
  /\ pool' = "none"
  /\ gen' = NewGen
  /\ remaining' = Unlimited
  /\ handler' = "idle"
  /\ job' = <<>>
  /\ delivered' = 0
  /\ worker' = [w \in Workers |-> IdleWorker]
  /\ progress' = NewProgress
  /\ dispatched' = <<>>
  /\ outcomes' = <<>>
  /\ requested' = {}
  /\ before' = files
  /\ completed' = <<>>
  /\ UNCHANGED <<target, limit, csv, files, dirs>>

\* One step of one worker process.
WorkerStep ==
  /\ \E w \in Workers : Take(w) \/ Exists(w) \/ UrlRetrieve(w)
  /\ UNCHANGED completed

\* The tasks that get their result in this step.
JustCompleted ==
  {i \in DOMAIN job : job[i].result.status = "none" /\ job'[i].result.status # "none"}

\* One step of one worker process, with the order of completion recorded.
WorkerStepInOrder ==
  /\ \E w \in Workers : Take(w) \/ Exists(w) \/ UrlRetrieve(w)
  /\ completed' = IF JustCompleted = {} THEN completed
                  ELSE Append(completed, CHOOSE i \in JustCompleted : TRUE)

Main == ValidateTarget \/ OpenPool \/ StartRound \/ Aggregate \/ EndFor

\* One call of run().
Next ==
  \/ ValidateTarget
  \/ OpenPool
  \/ StartRound
  \/ HandleTask
  \/ WorkerStep
  \/ Aggregate
  \/ EndFor

Spec == Init /\ [][Next]_vars

\* One call of run() on a target that holds no receipt yet; the threads and
\* processes are scheduled fairly, and every urlretrieve returns or raises.
InitEmpty == Init /\ files = {}

FairSpec ==
  InitEmpty /\ [][Next]_vars /\ WF_vars(Main) /\ WF_vars(HandleTask) /\ WF_vars(WorkerStep)

\* run(target) without a limit, called MaxRuns times on the same target and
\* the same datasets.  The target holds no receipt before the first call, so
\* that the files a later call finds are those the calls before it left.
InitTwice == InitEmpty /\ limit = 0

NextTwice == Next \/ RunAgain

SpecTwice == InitTwice /\ [][NextTwice]_vars

\* One call of run() without a limit on an empty target, with one dataset of
\* PoolRows rows that all have a document id: more tasks than processes.
InitPool == InitOn(PoolDirs) /\ target = "dir" /\ limit = 0 /\ files = {}

SpecPool == InitPool /\ [][Next]_vars

\* One call of run(), with the order in which the workers finish recorded.
NextInOrder ==
  \/ ValidateTarget
  \/ OpenPool
  \/ StartRound
  \/ HandleTask
  \/ WorkerStepInOrder
  \/ Aggregate
  \/ EndFor

SpecInOrder == Init /\ [][NextInOrder]_vars

TypeOK ==
  /\ pc \in {"start", "pool", "loop", "for", "done", "raised"}
  /\ pool \in {"none", "open", "terminated"}
  /\ progress.count \in Nat
  /\ delivered <= Len(job)

\* ------------------------------------------------------------ properties
Started == before

Returned == pc = "done"

Aborted == pc = "raised"

Range(f) == {f[i] : i \in DOMAIN f}

\* The rows of the datasets that have a document_id, as <<dataset, row>>, in
\* dataset order and row order.
RECURSIVE Positions(_, _)
Positions(cs, d) ==
  IF d > Len(cs) THEN <<>>
  ELSE [r \in 1..Len(cs[d].rows) |-> <<d, r>>] \o Positions(cs, d + 1)

HasDocument(cs, pos) == cs[pos[1]].rows[pos[2]].document_id \in DocumentIds

ValidPositions(cs) == SelectSeq(Positions(cs, 1), LAMBDA pos : HasDocument(cs, pos))

ReceiptAt(cs, pos) == Receipt(cs[pos[1]].rows[pos[2]], TargetPath)

Readable(cs) == \A d \in DOMAIN cs : cs[d].ok

\* The generator stopped with the exception of pd.read_csv.
ReadFailed == ~gen.live /\ gen.ds \in DOMAIN csv /\ ~csv[gen.ds].ok

\* A fetch failed, or its response had no Content-Length.
NetworkFailure ==
  \/ Aborted
  \/ progress.errors # <<>>

Accounted == progress.count + Len(progress.skipped) + Len(progress.errors)

OkOutcomes == {i \in DOMAIN outcomes : outcomes[i].status = "ok"}

\* C1: a run with limit N > 0 that returns has successCount = N, counting
\* only the Ok outcomes, and leaves N more receipt files in the target than
\* there were when it started.
C1_LimitAddsNFiles ==
  (Returned /\ limit > 0) =>
     /\ progress.count = limit
     /\ progress.count = Cardinality(OkOutcomes)
     /\ Cardinality(files) = Cardinality(Started) + limit

\* The run starts on an empty target, with a limit and readable datasets.
C2_Start ==
  /\ pc = "start"
  /\ target = "dir"
  /\ limit > 0
  /\ files = {}
  /\ Readable(csv)

\* Once successCount has reached the limit nothing more is dispatched, and a
\* run that returns has dispatched one descriptor per counted result.
C2_NoMoreThanNeeded ==
  /\ [][(limit > 0 /\ progress.count >= limit) => dispatched' = dispatched]_vars
  /\ []((Returned /\ limit > 0) =>
          Len(dispatched) = limit + Len(progress.skipped) + Len(progress.errors))

\* C2 as stated: with limit N > 0, an empty target, at least N valid
\* descriptors in the source and no network failure, the run eventually
\* returns with successCount = N, and dispatches no more than needed.
C2_Claim ==
  /\ (C2_Start /\ Len(ValidPositions(csv)) >= limit)
        ~> ((Returned /\ progress.count = limit) \/ NetworkFailure)
  /\ C2_NoMoreThanNeeded

\* C2 amended: the same, for a source that holds at least N descriptors
\* with pairwise distinct local paths.
C2_Amended ==
  /\ (C2_Start
        /\ Cardinality({path(ReceiptAt(csv, pos)) : pos \in Range(ValidPositions(csv))}) >= limit)
        ~> ((Returned /\ progress.count = limit) \/ NetworkFailure)
  /\ C2_NoMoreThanNeeded

\* A run with a limit on an empty target returned after N downloads and left
\* a descriptor of the source undispatched.
C2_Witness ==
  /\ Returned
  /\ limit > 0
  /\ Started = {}
  /\ progress.count = limit
  /\ progress.errors = <<>>
  /\ Len(dispatched) < Len(ValidPositions(csv))

\* C3: under fair scheduling every run with a valid target directory
\* eventually ends: it returns the progress (or, where a failure is not
\* swallowed, is ended by it), for every limit.
C3_RunEnds == (pc = "pool") ~> (Returned \/ Aborted)

\* C4: the three categories of the progress add up to the number of
\* results consumed so far, which never exceeds the number of descriptors
\* dispatched, and equals it when run returns.
C4_Accounting ==
  /\ Accounted = Len(outcomes)
  /\ Len(outcomes) <= Len(dispatched)
  /\ Returned => Accounted = Len(dispatched)

\* A run that returned after two results of different categories.
C4_Witness ==
  /\ Returned
  /\ Len(dispatched) = 2
  /\ progress.count = 1
  /\ Len(progress.errors) = 1

\* The for loop consumes, and does not raise on, the result at the head of
\* the iterator.
Consumes == pc = "for" /\ delivered < Len(job) /\ delivered' = delivered + 1

\* What download_receipt returns for an HTTP error status and what the for
\* loop does with it: the Error result, whose URL is appended to errors,
\* with nothing else of the progress changed and no exception in run().
C5_ErrorIsRecorded ==
  /\ [](\A i \in DOMAIN job :
          job[i].response = "http_error" => job[i].result.status = "error")
  /\ [][(pc = "for" /\ delivered < Len(job) /\ job[delivered + 1].response = "http_error"
           /\ (delivered' # delivered \/ pc' # pc))
          => /\ Consumes
             /\ pc' = "for"
             /\ pool' = "open"
             /\ progress' = [progress EXCEPT
                               !.errors = Append(@, url(job[delivered + 1].receipt))]]_vars

\* C5: a fetch answered with an HTTP error status gives the Error result;
\* consuming it appends the URL to errors and changes nothing else of the
\* progress, the run is not aborted, and it still returns (unless another
\* failure ends it).
C5_Claim ==
  /\ C5_ErrorIsRecorded
  /\ (progress.errors # <<>>) ~> (Returned \/ Aborted)

\* C6: a fetch that fails with a transport error gives the Error result,
\* as one that fails with an HTTP error status does, and never an exception
\* in run().
C6_TransportErrorIsErrorOutcome ==
  \A i \in DOMAIN job :
     job[i].response = "url_error" => job[i].result.status = "error"

\* C7: while the target is missing or is not a directory, the pool is not
\* created, the generator is not advanced, nothing is dispatched, requested
\* or written, and run does not return.
C7_BadTargetFailsFirst ==
  target # "dir" =>
     /\ pc \in {"start", "raised"}
     /\ pool = "none"
     /\ gen = NewGen
     /\ job = <<>>
     /\ dispatched = <<>>
     /\ requested = {}
     /\ files = Started
     /\ dirs = {dirname(f) : f \in Started}
     /\ progress = NewProgress

\* run() raised on a target that is a file, with datasets that hold receipts.
C7_Witness ==
  /\ target = "file"
  /\ Aborted
  /\ \E i \in DOMAIN csv : csv[i].ok /\ csv[i].rows # <<>>

\* C8 as stated: when the generator fails on an unreadable dataset, no
\* descriptor has been dispatched, wherever the dataset is in the list.
C8_Claim == ReadFailed => dispatched = <<>>

\* C8 amended: an unreadable dataset ends the run when the generator reaches
\* it: the run cannot return any more, and what has been dispatched is every
\* row with a document_id of the datasets before it and nothing else (so
\* nothing, when no earlier dataset has such a row).
C8_Amended ==
  ReadFailed =>
     /\ pc \in {"for", "raised"}
     /\ dispatched = SelectSeq(ValidPositions(csv), LAMBDA pos : pos[1] < gen.ds)

\* run() raised on the second dataset after the results of the first.
C8_Witness ==
  /\ ReadFailed
  /\ Aborted
  /\ gen.ds = 2
  /\ outcomes # <<>>
  /\ Len(outcomes) = Len(dispatched)

\* C9: in a later run without limit on the same target and the same
\* datasets, a descriptor whose file was on disk when the run started is
\* only ever skipped: its result is Skipped, it adds nothing to
\* successCount, and its URL is not requested.
C9_SecondRunSkips ==
  (runNo > 1 /\ limit = 0) =>
     /\ \A i \in DOMAIN job :
           path(job[i].receipt) \in Started =>
              /\ job[i].result.status \in {"none", "skipped"}
              /\ job[i].response = "none"
     /\ \A w \in Workers :
           (worker[w].pc = "urlretrieve") => path(job[worker[w].idx].receipt) \notin Started
     /\ \A o \in Range(outcomes) :
           path(o.receipt) \in Started => o.status = "skipped"
     /\ \A r \in Receipts : path(r) \in Started => url(r) \notin requested
     /\ progress.count <= Cardinality({i \in DOMAIN outcomes : path(outcomes[i].receipt) \notin Started})

\* The second run returned having skipped a receipt the first run downloaded.
C9_Witness ==
  /\ runNo = 2
  /\ Returned
  /\ \E o \in Range(outcomes) :
        /\ o.status = "skipped"
        /\ path(o.receipt) \in Started

\* C10: when the path exists as the worker checks it, the result is Skipped,
\* no request is made and the files are unchanged; the worker goes on to
\* urlretrieve only from a check that found no file, and only a worker in
\* urlretrieve makes a request.
C10_SkipWithoutFetch ==
  [][pool' = "open" =>
       /\ \A w \in Workers :
            /\ (worker[w].pc = "exists" /\ worker'[w] # worker[w]) =>
                  LET i == worker[w].idx IN
                  IF path(job[i].receipt) \in files
                  THEN /\ job'[i].result = SkippedResult
                       /\ job'[i].response = "none"
                       /\ worker'[w].pc = "idle"
                       /\ requested' = requested
                       /\ files' = files
                  ELSE /\ worker'[w].pc = "urlretrieve"
                       /\ job'[i].result = Pending
            /\ (worker'[w].pc = "urlretrieve" /\ worker[w].pc # "urlretrieve") =>
                  /\ worker[w].pc = "exists"
                  /\ path(job[worker[w].idx].receipt) \notin files
       /\ (requested' # requested \/ files' # files) =>
            \E w \in Workers :
               /\ worker[w].pc = "urlretrieve"
               /\ requested' = requested \cup {url(job[worker[w].idx].receipt)}
               /\ files' \subseteq files \cup {path(job[worker[w].idx].receipt)}]_vars

\* A worker found the file on disk and returned Skipped.
C10_Witness ==
  \E i \in DOMAIN job :
     /\ job[i].result = SkippedResult
     /\ path(job[i].receipt) \in files
     /\ url(job[i].receipt) \notin requested

\* Task y of this imap call was finished by its worker before task x.
CompletedBefore(y, x) ==
  \E m, n \in DOMAIN completed : m < n /\ completed[m] = y /\ completed[n] = x

\* The for loop binds the result of a task in this step.
ConsumesResult ==
  pc = "for" /\ delivered < Len(job) /\ (delivered' = delivered + 1 \/ pc' = "raised")

\* C11 (as stated): results reach the for loop in the order in which the
\* workers complete them: when the loop binds the result of a task, the result
\* of every task that completed before it has already been bound.
C11_Claim ==
  [][ConsumesResult =>
       \A y \in DOMAIN job : CompletedBefore(y, delivered + 1) => y <= delivered]_vars

\* C11: results reach the for loop in the order in which the tasks were
\* dispatched: the k-th result bound in a run is that of the k-th receipt
\* sent to the pool, whatever the order in which the workers finished.
C11_Amended ==
  \A k \in DOMAIN outcomes :
     /\ k <= Len(dispatched)
     /\ outcomes[k].receipt = ReceiptAt(csv, dispatched[k])

\* The second task was finished first; the for loop has bound the result of
\* the first task, and the result of the second, a different receipt, waits.
C11_Witness ==
  /\ pc = "for"
  /\ delivered = 1
  /\ Len(job) = 2
  /\ completed = <<2, 1>>
  /\ job[1].receipt # job[2].receipt
  /\ Len(outcomes) = 1

\* The generator has raised StopIteration.
Exhausted == ~gen.live /\ ~ReadFailed

\* C12: Receipts.all() yields the rows that have a document id, each once,
\* in the order of the rows within a dataset and of the datasets, and no row
\* without a document id: what has been yielded so far is an initial part of
\* the rows with a document id, all of them once the generator is exhausted,
\* and each task carries the Receipt of its row.
C12_AllYieldsRowsInOrder ==
  LET valid == ValidPositions(csv) IN
  /\ Len(dispatched) <= Len(valid)
  /\ dispatched = SubSeq(valid, 1, Len(dispatched))
  /\ Exhausted => dispatched = valid
  /\ Len(job) <= Len(dispatched)
  /\ \A i \in DOMAIN job :
        job[i].receipt = ReceiptAt(csv, dispatched[Len(dispatched) - Len(job) + i])

\* Two datasets were read to their end; a row without a document id was
\* passed over and a row with one was yielded.
C12_Witness ==
  /\ Exhausted
  /\ Len(csv) = 2
  /\ dispatched # <<>>
  /\ Len(dispatched) < Len(Positions(csv, 1))

\* C13: no two workers are in urlretrieve for the same local path at the
\* same time.
C13_OneWriterPerPath ==
  \A v, w \in Workers :
     (v # w /\ worker[v].pc = "urlretrieve" /\ worker[w].pc = "urlretrieve")
        => path(job[worker[v].idx].receipt) # path(job[worker[w].idx].receipt)

\* The generator has gone past the row at pos.
Passed(pos) == pos[1] < gen.ds \/ (pos[1] = gen.ds /\ pos[2] <= gen.row)

\* C14: no row is sent to the pool twice in a run, whatever the result of its
\* task and whatever the round of the while loop, and every row with a
\* document id that the generator has gone past has been sent to the pool.
C14_NoRetryNoDrop ==
  /\ Cardinality(Range(dispatched)) = Len(dispatched)
  /\ \A pos \in Range(ValidPositions(csv)) \ Range(dispatched) : ~Passed(pos)

\* With --limit 1 the first round ended without a download (its receipt was
\* skipped or failed) and a second round has sent the next row to the pool.
C14_Witness ==
  /\ limit = 1
  /\ Len(dispatched) = 2
  /\ Len(outcomes) >= 1
  /\ outcomes[1].status \in {"skipped", "error"}
  /\ Len(job) = 1

\* A step of a worker process or of the task handler: a task is queued,
\* taken or finished, a directory or a file is created, a URL is requested.
PoolStep ==
  \/ files' # files \/ dirs' # dirs \/ requested' # requested
  \/ dispatched' # dispatched
  \/ \E i \in DOMAIN job : i \in DOMAIN job' /\ job'[i] # job[i]
  \/ \E w \in Workers : worker'[w].pc \in {"exists", "urlretrieve"} /\ worker'[w] # worker[w]

\* C15: the progress dictionary is written by the for loop of run only, one
\* result at a time: a step that changes it binds exactly one result and is
\* no step of a worker or of the task handler, and every step of a worker or
\* of the task handler leaves it as it was.
C15_OnlyTheLoopWritesProgress ==
  [][/\ progress' # progress =>
          /\ pc = "for"
          /\ delivered < Len(job)
          /\ job[delivered + 1].result.status # "none"
          /\ delivered' = delivered + 1 \/ pc' = "raised"
          /\ Len(outcomes') = Len(outcomes) + 1
          /\ ~PoolStep
     /\ PoolStep => progress' = progress]_vars

\* One download has been counted by the for loop; a worker has finished
\* another one, which is not in the progress dictionary yet.
C15_Witness ==
  /\ pc = "for"
  /\ delivered = 1
  /\ progress.count = 1
  /\ Len(job) = 2
  /\ job[2].result.status = "ok"
  /\ path(job[2].receipt) \in files

\* C16: binding one result changes one category of the progress dictionary:
\* 'ok' adds 1 to count and the Content-Length to size and leaves both lists;
\* 'skipped' appends the URL to skipped and leaves the rest; 'error' appends
\* the URL to errors and leaves the rest.  (An 'ok' result without a
\* Content-Length is counted, then int() raises and size stays.)  In no step
\* of a run does count or the length of a list decrease.
C16_OneCategoryPerResult ==
  [][/\ ConsumesResult =>
          LET t == job[delivered + 1]
              u == url(t.receipt)
          IN  CASE t.result.status = "ok" ->
                     /\ progress'.count = progress.count + 1
                     /\ IF t.result.args = NoContentLength
                        THEN progress'.size = progress.size /\ pc' = "raised"
                        ELSE progress'.size = progress.size + t.result.args
                     /\ progress'.skipped = progress.skipped
                     /\ progress'.errors = progress.errors
                [] t.result.status = "skipped" ->
                     progress' = [progress EXCEPT !.skipped = Append(@, u)]
                [] t.result.status = "error" ->
                     progress' = [progress EXCEPT !.errors = Append(@, u)]
                [] OTHER -> progress' = progress
     /\ progress'.count >= progress.count
     /\ Len(progress'.skipped) >= Len(progress.skipped)
     /\ Len(progress'.errors) >= Len(progress.errors)]_vars

\* A skipped receipt and a download of 2 bytes have been bound.
C16_Witness ==
  /\ pc = "for"
  /\ delivered = 2
  /\ progress.count = 1
  /\ progress.size = 2
  /\ Len(progress.skipped) = 1
  /\ progress.errors = <<>>

\* The tasks of this imap call that a worker has taken and not finished.
InFlight == {i \in DOMAIN job : job[i].taken /\ job[i].result.status = "none"}

\* C17: at most 4 tasks are being executed at the same time, each of them by
\* one worker, and a worker executes one task at a time.
C17_BoundedParallelism ==
  /\ Cardinality(InFlight) <= 4
  /\ \A i \in InFlight :
        Cardinality({w \in Workers : worker[w].pc # "idle" /\ worker[w].idx = i}) = 1
  /\ \A w \in Workers : worker[w].pc # "idle" => worker[w].idx \in InFlight

\* Four tasks are being executed and a fifth waits in the queue.
C17_Witness ==
  /\ Cardinality(InFlight) = 4
  /\ Queued # {}
  /\ \A w \in Workers : worker[w].pc # "idle"

\* Tasks of the current imap call whose result the for loop has not bound.
Undelivered == Len(job) - delivered

\* C18: with a limit N > 0, count plus the tasks of the current round whose
\* result has not been bound is at most N, also counting the tasks the round
\* may still send to the pool; hence count never exceeds N, and once count
\* is N no task is queued or executed and none will be sent to the pool.
C18_LimitBoundsTheRound ==
  limit > 0 =>
    /\ progress.count + Undelivered <= limit
    /\ (pc = "for" /\ handler = "running") =>
          /\ remaining >= 0
          /\ progress.count + Undelivered + remaining <= limit
    /\ progress.count <= limit
    /\ progress.count = limit =>
          /\ Queued = {}
          /\ \A w \in Workers : worker[w].pc = "idle"
          /\ \A i \in DOMAIN job : job[i].result.status # "none"

\* With --limit 2, one download is counted and one task is still to be bound.
C18_Witness ==
  /\ limit = 2
  /\ pc = "for"
  /\ progress.count = 1
  /\ Undelivered = 1
  /\ job[Len(job)].result.status = "none"

\* The URLs of the receipts sent to the pool whose result, once bound, had
\* the status st, in the order in which the generator yielded them.
UrlsInSourceOrder(st) ==
  LET ks == SelectSeq([k \in 1..Len(outcomes) |-> k], LAMBDA k : outcomes[k].status = st)
  IN  [n \in DOMAIN ks |-> url(ReceiptAt(csv, dispatched[ks[n]]))]

\* C19: the lists skipped and errors hold the URLs in the order in which
\* the generator yielded the receipts, whatever the order in which the
\* workers finished: they are determined by the datasets and the status of
\* each receipt.
C19_ListsInSourceOrder ==
  /\ Len(outcomes) <= Len(dispatched)
  /\ progress.skipped = UrlsInSourceOrder("skipped")
  /\ progress.errors = UrlsInSourceOrder("error")

\* Two receipts failed, the second before the first; both are in errors.
C19_Witness ==
  /\ pc = "for"
  /\ completed = <<2, 1>>
  /\ delivered = 2
  /\ Len(progress.errors) = 2
  /\ progress.errors[1] # progress.errors[2]
  /\ progress.errors[1] = url(job[1].receipt)

====
